---- MODULE Spec2Model ----
(***************************************************************************)
(* A model of tasks/components/task.py: the TaskView component (a title    *)
(* buffer per client, a tasks snapshot) over the Task table.               *)
(*                                                                         *)
(* One interaction cycle of a client is hydrate, one handler, render.  It  *)
(* is cut at the calls to the Task table, which are the only places where  *)
(* cycles of different clients can interleave:                             *)
(*   Call            hydrate and entry of the handler (no table access:    *)
(*                   Task.objects.all() builds a lazy QuerySet)            *)
(*   AddTask         add_task, whole body (one table call: save)           *)
(*   DeleteTaskGet / DeleteTaskDelete    delete_task (get, then delete)    *)
(*   PreviewTask     preview_task, whole body (one table call: get)        *)
(*   UpdateTaskGet / UpdateTaskSave      update_task (get, then save)      *)
(*   Render          the QuerySet of hydrate is evaluated for the view     *)
(*   Return          the response has left, the client may act again       *)
(* A handler that raises skips Render.  Between Call and Return of a       *)
(* client the steps are forced by pc, so with one cycle at a time a        *)
(* handler runs as a whole.                                                *)
(*                                                                         *)
(* The table follows Django: ids come from an AUTOINCREMENT sequence and   *)
(* are never reused; get raises DoesNotExist for a missing row; save of a  *)
(* fetched object is an UPDATE by id, then an INSERT when no row matched;  *)
(* delete of a row already gone is not an error.                           *)
(*                                                                         *)
(* Spec runs the cycles one at a time, SpecFault adds failing table        *)
(* writes, SpecConc interleaves the cycles of the clients.                 *)
(***************************************************************************)
EXTENDS Integers, FiniteSets, TLC

\* ------------------------------------------------------------------ bounds
MaxId == 2
Clients == {"c1", "c2"}
Titles == {"", "a", "b"}
ArgIds == 1..MaxId

\* ------------------------------------------------------------ model state
VARIABLES
    store,      \* the Task table: id -> title, for the rows that exist
    nextId,     \* the table's AUTOINCREMENT sequence
    title,      \* title[c]: the component's title buffer
    tasks,      \* the tasks QuerySet of the component hydrated or rendered last
    pc,         \* pc[c]: where client c's interaction cycle stands
    op,         \* op[c]: the handler of c's current (or last) cycle
    arg,        \* arg[c]: the id argument of that handler
    task,       \* task[c]: the handler's local variable `task`
    err,        \* err[c]: the exception that left the handler, if any
    fault,      \* fault[c]: a table write failed during c's cycle
    cur,        \* the client whose cycle started last
    pre,        \* the table and cur's buffer when that cycle started
    created,    \* ids whose Task was created by add_task
    deleted     \* ids whose Task was removed by delete_task

vars == <<store, nextId, title, tasks, pc, op, arg, task, err, fault, cur,
          pre, created, deleted>>

NoError == "none"
UnboundLocalError == "UnboundLocalError"
StoreError == "StoreError"

Unbound == [bound |-> FALSE, id |-> 0, title |-> ""]
Bound(i, t) == [bound |-> TRUE, id |-> i, title |-> t]

EmptyRows == [i \in {} |-> ""]
\* Task.objects.none(), the class attribute.
NoneQuerySet == [client |-> "none", evaluated |-> TRUE, rows |-> EmptyRows]
\* Task.objects.all(), assigned by hydrate and not yet evaluated.
LazyQuerySet(c) == [client |-> c, evaluated |-> FALSE, rows |-> EmptyRows]

\* ------------------------------------------------------- the Task table
\* Mutants of ObjectsGet: a get_or_create, and a lookup that ignores the id.
ObjectsGetOrCreate(s, i) ==
    IF i \in DOMAIN s THEN Bound(i, s[i]) ELSE Bound(i, "")
ObjectsGetFirst(s, i) ==
    IF DOMAIN s = {} THEN Unbound
    ELSE LET m == CHOOSE j \in DOMAIN s : \A k \in DOMAIN s : j <= k
         IN  Bound(m, s[m])

\* Task.objects.get(id=id): the row, or DoesNotExist (an unbound result).
ObjectsGet(s, i) ==
    IF i \in DOMAIN s THEN Bound(i, s[i]) ELSE Unbound

\* Mutant of Insert: the row is written without the title.
InsertUntitled(s, i, t) ==
    [j \in DOMAIN s \cup {i} |-> IF j = i THEN "" ELSE s[j]]

\* Task(title=t).save() of a new object: INSERT under a fresh id.
Insert(s, i, t) ==
    [j \in DOMAIN s \cup {i} |-> IF j = i THEN t ELSE s[j]]

\* Mutant of Save: the object is changed in memory and never written.
SaveNothing(s, tk) == s

\* task.save() of a fetched object: UPDATE ... WHERE id = task.id, and an
\* INSERT of the row under that id when the UPDATE matched no row.
Save(s, tk) ==
    [j \in DOMAIN s \cup {tk.id} |-> IF j = tk.id THEN tk.title ELSE s[j]]

\* Mutant of Delete: the DELETE has lost its WHERE clause.
DeleteAll(s, tk) == EmptyRows

\* task.delete(): DELETE ... WHERE id = task.id (no error when no row is left).
Delete(s, tk) ==
    [j \in DOMAIN s \ {tk.id} |-> s[j]]

\* Task.objects.all(), evaluated for the view of client c.
ObjectsAll(c, s) == [client |-> c, evaluated |-> TRUE, rows |-> s]

\* Mutant of HasTitle: the test of the buffer is gone.
HasTitleAlways(t) == TRUE

\* add_task's test of the buffer.
HasTitle(t) == t # ""

\* ------------------------------------------------------------------ Init
Init ==
    /\ store = EmptyRows
    /\ nextId = 1
    /\ title = [c \in Clients |-> ""]
    /\ tasks = NoneQuerySet
    /\ pc = [c \in Clients |-> "idle"]
    /\ op = [c \in Clients |-> "none"]
    /\ arg = [c \in Clients |-> 0]
    /\ task = [c \in Clients |-> Unbound]
    /\ err = [c \in Clients |-> NoError]
    /\ fault = [c \in Clients |-> FALSE]
    /\ cur = "none"
    /\ pre = [store |-> EmptyRows, title |-> ""]
    /\ created = {}
    /\ deleted = {}

Resting(c) == pc[c] = "idle"

\* No other client is inside an interaction cycle.
Serial(c) == \A d \in Clients \ {c} : Resting(d)

\* --------------------------------------------------------------- actions
\* The client edits the bound input: the buffer takes the typed text.
SetTitle(c, t) ==
    /\ Resting(c)
    /\ title' = [title EXCEPT ![c] = t]
    /\ UNCHANGED <<store, nextId, tasks, pc, op, arg, task, err, fault, cur,
                   pre, created, deleted>>

\* A cycle starts: hydrate() assigns the lazy QuerySet, the handler is entered.
Call(c, o, i) ==
    /\ Resting(c)
    /\ tasks' = LazyQuerySet(c)
    /\ pc' = [pc EXCEPT ![c] = o]
    /\ op' = [op EXCEPT ![c] = o]
    /\ arg' = [arg EXCEPT ![c] = i]
    /\ cur' = c
    /\ pre' = [store |-> store, title |-> title[c]]
    /\ UNCHANGED <<store, nextId, title, task, err, fault, created, deleted>>

\* (the table holds ids up to MaxId: no add_task starts that would pass it)
CallAddTask(c) ==
    /\ HasTitle(title[c]) => nextId <= MaxId
    /\ Call(c, "add_task", 0)
CallDeleteTask(c, i) == Call(c, "delete_task", i)
CallPreviewTask(c, i) == Call(c, "preview_task", i)
CallUpdateTask(c, i) == Call(c, "update_task", i)

\* add_task: save a Task when the buffer is not empty, clear the buffer, then
\* read task.title for the message: `task` is unbound when nothing was saved.
AddTask(c) ==
    /\ pc[c] = "add_task"
    /\ IF HasTitle(title[c])
       THEN /\ store' = Insert(store, nextId, title[c])
            /\ task' = [task EXCEPT ![c] = Bound(nextId, title[c])]
            /\ created' = created \cup {nextId}
            /\ nextId' = nextId + 1
            /\ pc' = [pc EXCEPT ![c] = "render"]
            /\ UNCHANGED err
       ELSE /\ err' = [err EXCEPT ![c] = UnboundLocalError]
            /\ pc' = [pc EXCEPT ![c] = "done"]
            /\ UNCHANGED <<store, task, created, nextId>>
    /\ title' = [title EXCEPT ![c] = ""]
    /\ UNCHANGED <<tasks, op, arg, fault, cur, pre, deleted>>

\* delete_task, line 26: the lookup; DoesNotExist is caught and passed.
DeleteTaskGet(c) ==
    /\ pc[c] = "delete_task"
    /\ task' = [task EXCEPT ![c] = ObjectsGet(store, arg[c])]
    /\ pc' = [pc EXCEPT ![c] =
                IF task'[c].bound THEN "delete_task_delete" ELSE "render"]
    /\ UNCHANGED <<store, nextId, title, tasks, op, arg, err, fault, cur, pre,
                   created, deleted>>

\* delete_task, lines 27-29: the delete and the message.
DeleteTaskDelete(c) ==
    /\ pc[c] = "delete_task_delete"
    /\ store' = Delete(store, task[c])
    /\ deleted' = deleted \cup {task[c].id}
    /\ pc' = [pc EXCEPT ![c] = "render"]
    /\ UNCHANGED <<nextId, title, tasks, op, arg, task, err, fault, cur, pre,
                   created>>

\* preview_task: the lookup, and the buffer takes the title found.
PreviewTask(c) ==
    /\ pc[c] = "preview_task"
    /\ task' = [task EXCEPT ![c] = ObjectsGet(store, arg[c])]
    /\ title' = [title EXCEPT ![c] =
                   IF task'[c].bound THEN task'[c].title ELSE @]
    /\ pc' = [pc EXCEPT ![c] = "render"]
    /\ UNCHANGED <<store, nextId, tasks, op, arg, err, fault, cur, pre,
                   created, deleted>>

\* update_task, lines 43-45: the lookup, and the object takes the buffer.
UpdateTaskGet(c) ==
    /\ pc[c] = "update_task"
    /\ LET got == ObjectsGet(store, arg[c]) IN
         /\ task' = [task EXCEPT ![c] =
                        IF got.bound THEN Bound(got.id, title[c]) ELSE got]
         /\ pc' = [pc EXCEPT ![c] =
                        IF got.bound THEN "update_task_save" ELSE "render"]
    /\ UNCHANGED <<store, nextId, title, tasks, op, arg, err, fault, cur, pre,
                   created, deleted>>

\* update_task, lines 47-49: the save, and the buffer is cleared.
UpdateTaskSave(c) ==
    /\ pc[c] = "update_task_save"
    /\ store' = Save(store, task[c])
    /\ title' = [title EXCEPT ![c] = ""]
    /\ pc' = [pc EXCEPT ![c] = "render"]
    /\ UNCHANGED <<nextId, tasks, op, arg, task, err, fault, cur, pre,
                   created, deleted>>

\* The view is rendered: the QuerySet assigned by hydrate is evaluated now.
Render(c) ==
    /\ pc[c] = "render"
    /\ tasks' = ObjectsAll(c, store)
    /\ pc' = [pc EXCEPT ![c] = "done"]
    /\ UNCHANGED <<store, nextId, title, op, arg, task, err, fault, cur, pre,
                   created, deleted>>

\* The response has left: the request's handler, argument, local variable and
\* outcome are gone; the component keeps its buffer.
Return(c) ==
    /\ pc[c] = "done"
    /\ pc' = [pc EXCEPT ![c] = "idle"]
    /\ op' = [op EXCEPT ![c] = "none"]
    /\ arg' = [arg EXCEPT ![c] = 0]
    /\ task' = [task EXCEPT ![c] = Unbound]
    /\ err' = [err EXCEPT ![c] = NoError]
    /\ fault' = [fault EXCEPT ![c] = FALSE]
    /\ cur' = IF cur = c THEN "none" ELSE cur
    /\ pre' = IF cur = c THEN [store |-> EmptyRows, title |-> ""] ELSE pre
    /\ UNCHANGED <<store, nextId, title, tasks, created, deleted>>

\* ------------------------------------------------- failing table writes
\* add_task: save() raises; nothing catches it, line 20 is not reached.
AddTaskSaveFails(c) ==
    /\ pc[c] = "add_task"
    /\ HasTitle(title[c])
    /\ task' = [task EXCEPT ![c] = Bound(0, title[c])]
    /\ fault' = [fault EXCEPT ![c] = TRUE]
    /\ err' = [err EXCEPT ![c] = StoreError]
    /\ pc' = [pc EXCEPT ![c] = "done"]
    /\ UNCHANGED <<store, nextId, title, tasks, op, arg, cur, pre, created,
                   deleted>>

\* delete_task: delete() raises inside the try; the bare except passes.
DeleteTaskDeleteFails(c) ==
    /\ pc[c] = "delete_task_delete"
    /\ fault' = [fault EXCEPT ![c] = TRUE]
    /\ pc' = [pc EXCEPT ![c] = "render"]
    /\ UNCHANGED <<store, nextId, title, tasks, op, arg, task, err, cur, pre,
                   created, deleted>>

\* Mutant of UpdateTaskSaveFails: save() stands outside the try.
UpdateTaskSaveUncaught(c) ==
    /\ pc[c] = "update_task_save"
    /\ fault' = [fault EXCEPT ![c] = TRUE]
    /\ err' = [err EXCEPT ![c] = StoreError]
    /\ pc' = [pc EXCEPT ![c] = "done"]
    /\ UNCHANGED <<store, nextId, title, tasks, op, arg, task, cur, pre,
                   created, deleted>>

\* update_task: save() raises inside the try; the bare except passes and the
\* buffer is not cleared.
UpdateTaskSaveFails(c) ==
    /\ pc[c] = "update_task_save"
    /\ fault' = [fault EXCEPT ![c] = TRUE]
    /\ pc' = [pc EXCEPT ![c] = "render"]
    /\ UNCHANGED <<store, nextId, title, tasks, op, arg, task, err, cur, pre,
                   created, deleted>>

\* -------------------------------------------------------- specifications
\* The steps inside a cycle, the response, and the edits of the input.
Run(c) ==
    \/ \E t \in Titles : SetTitle(c, t)
    \/ AddTask(c)
    \/ DeleteTaskGet(c)
    \/ DeleteTaskDelete(c)
    \/ PreviewTask(c)
    \/ UpdateTaskGet(c)
    \/ UpdateTaskSave(c)
    \/ Render(c)
    \/ Return(c)

\* One interaction cycle at a time, reliable table.
Next ==
    \E c \in Clients :
        \/ Serial(c) /\ CallAddTask(c)
        \/ \E i \in ArgIds : Serial(c) /\ CallDeleteTask(c, i)
        \/ \E i \in ArgIds : Serial(c) /\ CallPreviewTask(c, i)
        \/ \E i \in ArgIds : Serial(c) /\ CallUpdateTask(c, i)
        \/ Run(c)
Spec == Init /\ [][Next]_vars

\* One interaction cycle at a time, table writes may fail.
NextFault ==
    \/ Next
    \/ \E c \in Clients :
        \/ AddTaskSaveFails(c)
        \/ DeleteTaskDeleteFails(c)
        \/ UpdateTaskSaveFails(c)
SpecFault == Init /\ [][NextFault]_vars

\* Cycles of different clients interleave at the table calls.
NextConc ==
    \E c \in Clients :
        \/ CallAddTask(c)
        \/ \E i \in ArgIds : CallDeleteTask(c, i)
        \/ \E i \in ArgIds : CallPreviewTask(c, i)
        \/ \E i \in ArgIds : CallUpdateTask(c, i)
        \/ Run(c)
SpecConc == Init /\ [][NextConc]_vars

\* ------------------------------------------------------------------ claims
\* Client c's cycle of handler o is over and nothing has run since: the table
\* and c's buffer are as the cycle left them, pre is what it found.
Done(c, o) == pc[c] = "done" /\ cur = c /\ op[c] = o

Existed(c) == arg[c] \in DOMAIN pre.store

\* The tasks snapshot of c's view was rendered in this cycle.
Rendered(c) == tasks.client = c /\ tasks.evaluated

\* C1: add_task with a non-empty buffer t leaves exactly one new Task, with
\* title t, every Task that existed is still there with its title, and the
\* buffer is empty afterward.
C1_AddCreatesOne ==
    \A c \in Clients :
        Done(c, "add_task") /\ pre.title # "" =>
            /\ \E i \in DOMAIN store \ DOMAIN pre.store :
                  /\ DOMAIN store = DOMAIN pre.store \cup {i}
                  /\ store[i] = pre.title
            /\ \A j \in DOMAIN pre.store : store[j] = pre.store[j]
            /\ title[c] = ""
C1_Witness ==
    \E c \in Clients :
        /\ Done(c, "add_task")
        /\ pre.title = "b"
        /\ DOMAIN pre.store = {1}
        /\ DOMAIN store = {1, 2}

\* C2: add_task with an empty buffer completes its cycle with no error raised.
C2_EmptyAddNoError ==
    \A c \in Clients :
        Done(c, "add_task") /\ pre.title = "" => err[c] = NoError

\* C3: add_task with an empty buffer creates no Task, leaves the table as it
\* was (same ids, same titles), and the buffer is empty afterward.
C3_EmptyAddKeepsStore ==
    \A c \in Clients :
        Done(c, "add_task") /\ pre.title = "" =>
            /\ store = pre.store
            /\ title[c] = ""
C3_Witness ==
    \E c \in Clients :
        /\ Done(c, "add_task")
        /\ pre.title = ""
        /\ DOMAIN pre.store # {}

\* C4, as claimed: a failing table write of add_task, update_task or
\* delete_task leaves the handler as an error and ends the cycle.
C4_FailurePropagates ==
    \A c \in Clients :
        fault[c] /\ pc[c] \in {"render", "done"} =>
            /\ err[c] = StoreError
            /\ pc[c] = "done"
            /\ ~Rendered(c)

\* C4, amended: a failing save of add_task leaves the handler as an error and
\* ends the cycle before the render; a failing write of update_task or
\* delete_task is caught by the handler's bare except: the cycle renders and
\* completes with no error, the table and the buffer as they were.
C4_FailureByHandler ==
    \A c \in Clients :
        pc[c] = "done" /\ cur = c /\ fault[c] =>
            IF op[c] = "add_task"
            THEN /\ err[c] = StoreError
                 /\ ~Rendered(c)
                 /\ store = pre.store
            ELSE /\ op[c] \in {"update_task", "delete_task"}
                 /\ err[c] = NoError
                 /\ Rendered(c)
                 /\ store = pre.store
                 /\ title[c] = pre.title
C4_Witness ==
    \E c \in Clients :
        /\ Done(c, "update_task")
        /\ fault[c]
        /\ err[c] = NoError
        /\ Existed(c)
        /\ pre.title = "b"

\* C5: delete_task, preview_task and update_task of an id that is not in the
\* table change nothing: the table is as it was, no error is raised, and the
\* buffer keeps its value.
C5_MissingIdNoOp ==
    \A c \in Clients :
        /\ pc[c] = "done" /\ cur = c
        /\ op[c] \in {"delete_task", "preview_task", "update_task"}
        /\ ~Existed(c)
        => /\ store = pre.store
           /\ err[c] = NoError
           /\ title[c] = pre.title
C5_Witness ==
    \E c \in Clients :
        /\ Done(c, "update_task")
        /\ ~Existed(c)
        /\ pre.title = "a"
        /\ DOMAIN pre.store # {}

\* C6: update_task of an existing id with buffer t (the empty string
\* included) sets that Task's title to t and clears the buffer; the ids of
\* the table, and so their number, and every other title are as they were.
C6_UpdateSetsTitle ==
    \A c \in Clients :
        Done(c, "update_task") /\ Existed(c) =>
            /\ DOMAIN store = DOMAIN pre.store
            /\ Cardinality(DOMAIN store) = Cardinality(DOMAIN pre.store)
            /\ store[arg[c]] = pre.title
            /\ \A j \in DOMAIN pre.store \ {arg[c]} : store[j] = pre.store[j]
            /\ title[c] = ""
C6_Witness ==
    \E c \in Clients :
        /\ Done(c, "update_task")
        /\ Existed(c)
        /\ pre.title = ""
        /\ pre.store[arg[c]] = "a"
        /\ Cardinality(DOMAIN pre.store) = 2

\* C7: delete_task of an existing id removes that Task and no other, the
\* tasks snapshot rendered by the cycle does not hold the id, and the buffer
\* is as it was.
C7_DeleteRemovesOne ==
    \A c \in Clients :
        Done(c, "delete_task") /\ Existed(c) =>
            /\ DOMAIN store = DOMAIN pre.store \ {arg[c]}
            /\ \A j \in DOMAIN store : store[j] = pre.store[j]
            /\ Rendered(c)
            /\ arg[c] \notin DOMAIN tasks.rows
            /\ tasks.rows = store
            /\ title[c] = pre.title
C7_Witness ==
    \E c \in Clients :
        /\ Done(c, "delete_task")
        /\ Existed(c)
        /\ Cardinality(DOMAIN pre.store) = 2
        /\ pre.title = "a"

\* C8: preview_task of an existing id sets the buffer to that Task's title
\* and leaves the table as it was (same ids, same titles).
C8_PreviewLoadsTitle ==
    \A c \in Clients :
        Done(c, "preview_task") /\ Existed(c) =>
            /\ title[c] = pre.store[arg[c]]
            /\ store = pre.store
C8_Witness ==
    \E c \in Clients :
        /\ Done(c, "preview_task")
        /\ Existed(c)
        /\ arg[c] = 2
        /\ pre.store[2] = "b"
        /\ pre.title = "a"
        /\ 1 \in DOMAIN pre.store /\ pre.store[1] = "a"

\* C9: under every interleaving of the clients' cycles, a Task is in the
\* table exactly when add_task created it and no delete_task removed it.
C9_ExistsIffAddedNotDeleted ==
    DOMAIN store = created \ deleted

\* C10: every Task in the table has a non-empty title.
C10_NoEmptyTitleSaved ==
    \A i \in DOMAIN store : store[i] # ""

====
